---- MODULE Spec2Model ----
(***************************************************************************)
(* FairGradeForge: the assignment / submission / grade contract            *)
(* (contracts/FairGradeForge.sol) as a state machine.  Every external      *)
(* call is one atomic step (an EVM transaction).  A call that hits a       *)
(* require() reverts and leaves no trace in the storage, so the require()s *)
(* are the guard of the step; the ...Result operators give the outcome of  *)
(* a call in the current state: "ok" or the revert string, in code order.  *)
(***************************************************************************)
EXTENDS Integers, Naturals, Sequences, FiniteSets, TLC

(* ------------------------------ bounds --------------------------------- *)
MaxAssignments == 1     \* createAssignment is capped at this many records
MaxTime == 3            \* block.timestamp ranges over 1..MaxTime
MaxPending == 1         \* transactions sent and not yet mined, at most
MaxInits == 2           \* initializeInstance calls in flight, at most

(* ----------------------------- principals ------------------------------ *)
Deployer == "teacher"                       \* the account that deploys
Students == {"student1", "student2"}        \* the other signers
Accounts == {Deployer} \cup Students        \* every msg.sender
This == "this"                              \* address(this), for allowThis
NoAddress == "0x0"                          \* address(0), the default value

Ids == 0..MaxAssignments                    \* ids a caller may pass
Titles == {"", "Test Assignment"}
Requirements == {"Answer the question"}
Deadlines == 0..MaxTime

(* --------------------------- encrypted values -------------------------- *)
\* An external encrypted input is prepared off chain by one account
\* (createEncryptedInput(contractAddress, userAddress)); its handle is
\* identified by that account and a serial number.  The teacher grades several
\* students and has prepared two encrypted scores; a student has prepared one
\* encrypted answer.
Serials(user) == IF user = Deployer THEN {1, 2} ELSE {1}
ExternalInputs == UNION {[user : {u}, n : Serials(u)] : u \in Accounts}
ZeroHandle == [user |-> NoAddress, n |-> 0]
BadProof == [user |-> NoAddress, n |-> 0]
\* An input proof attests one input of one account; BadProof attests none.
\* The proofs a caller may pass along with input ext: its own, or a bad one.
Proofs(ext) == {ext, BadProof}

\* FHE.fromExternal(input, inputProof): reverts unless the proof attests this
\* input for the calling account; otherwise the handle is the input's handle.
\* The contract keeps no record of the inputs it has seen, so an account may
\* present the same input and proof in several calls.
InputVerified(ext, inputProof, sender) ==
    /\ inputProof = ext
    /\ ext.user = sender

fromExternal(ext, inputProof, sender) == ext

(* ------------------------------- records ------------------------------- *)
NoAssignment ==
    [id |-> 0, title |-> "", requirements |-> "", deadline |-> 0,
     teacher |-> NoAddress, submissionCount |-> 0, isGrading |-> FALSE]

NoSubmission ==
    [student |-> NoAddress, encryptedAnswer |-> ZeroHandle,
     timestamp |-> 0, exists |-> FALSE]

NoGrade ==
    [encryptedScore |-> ZeroHandle, timestamp |-> 0, exists |-> FALSE]

(* --------------------------- frontend values --------------------------- *)
Undefined == "undefined"                    \* a value that is not there yet
Hardhat == 31337                            \* the local network
Sepolia == 11155111                         \* the test network
OtherChain == 1                             \* a chain FHEVM is not set up for
ChainIds == {Hardhat, Sepolia, OtherChain}

\* An FhevmInstance is known by the chain it was created for; null is none.
NoInstance == [chainId |-> 0]
FhevmInstance(c) == [chainId |-> c]

\* The text of an input field, one character per element.
EmptyText == << >>

\* A useReadContract result that is disabled or has not started.
NoRead == [data |-> Undefined, isLoading |-> FALSE, isError |-> FALSE]

(* -------------------------------- state -------------------------------- *)
VARIABLES
    now,                \* block.timestamp
    teacher,            \* address public teacher
    assignments,        \* mapping(uint256 => Assignment)
    submissions,        \* mapping(uint256 => mapping(address => Submission))
    grades,             \* mapping(uint256 => mapping(address => Grade))
    totalAssignments,   \* uint256 public totalAssignments
    acl                 \* persistent FHE allowances: <<handle, address>>

\* The web frontend (React components over wagmi) and the transactions it has
\* sent that no block has included yet.
VARIABLES
    isConnected,        \* useAccount().isConnected
    address,            \* useAccount().address
    chainId,            \* useChainId()
    instance,           \* FHEVMProvider: useState<FhevmInstance | null>
    isLoading,          \* FHEVMProvider: useState(true)
    error,              \* FHEVMProvider: useState<string | null>
    inits,              \* initializeInstance calls awaiting createFhevmInstance
    answerValue,        \* AssignmentCard: useState("")
    students,           \* GradingDialog: useState<StudentSubmission[]>([])
    mempool,            \* transactions sent by writeContract, not yet mined
    teacherRead,        \* TeacherPage: useReadContract({functionName: 'teacher'})
    location            \* react-router: the current route

frontend == <<isConnected, address, chainId, instance, isLoading, error, inits,
              answerValue, students, mempool, teacherRead, location>>

vars == <<now, teacher, assignments, submissions, grades, totalAssignments,
          acl, frontend>>

storage == <<teacher, assignments, submissions, grades, totalAssignments, acl>>

\* The page as first rendered: no wallet connected, every useState at its
\* initial value, FHEVMProvider's effect run once (it finds no wallet).
Mounted ==
    /\ isConnected = FALSE
    /\ address = Undefined
    /\ chainId = Hardhat
    /\ instance = NoInstance
    /\ isLoading = FALSE
    /\ error = FALSE
    /\ inits = [c \in ChainIds |-> 0]
    /\ answerValue = EmptyText
    /\ students = [s \in {} |-> s]
    /\ mempool = {}
    /\ teacherRead = NoRead
    /\ location = "/"

\* constructor(): teacher = msg.sender; every mapping is empty.
Init ==
    /\ now = 1
    /\ teacher = Deployer
    /\ assignments = [i \in Ids |-> NoAssignment]
    /\ submissions = [i \in Ids |-> [s \in Accounts |-> NoSubmission]]
    /\ grades = [i \in Ids |-> [s \in Accounts |-> NoGrade]]
    /\ totalAssignments = 0
    /\ acl = {}
    /\ Mounted

(* ------------------------------- the clock ----------------------------- *)
\* A clock that may also go backwards
Tick_Backwards ==
    /\ now' \in (1..MaxTime) \ {now}
    /\ UNCHANGED storage
    /\ UNCHANGED frontend

\* A later block: block.timestamp never decreases.
Tick ==
    /\ now < MaxTime
    /\ now' = now + 1
    /\ UNCHANGED storage
    /\ UNCHANGED frontend

(* --------------------------- FHE permissions --------------------------- *)
\* FHE.allowThis(h) followed by FHE.allow(h, account)
allowThis(a, h) == a \cup {<<h, This>>}
allow(a, h, account) == a \cup {<<h, account>>}

(* ---------------------------- createAssignment ------------------------- *)
\* createAssignment with require(deadline >= block.timestamp, ...)
CreateAssignmentResult_DeadlineInclusive(sender, title, deadline) ==
    IF sender # teacher THEN "Only teacher can call this function"
    ELSE IF ~(deadline >= now) THEN "Deadline must be in the future"
    ELSE IF ~(Len(title) > 0) THEN "Title cannot be empty"
    ELSE "ok"

\* createAssignment without require(deadline > block.timestamp, ...)
CreateAssignmentResult_NoDeadlineCheck(sender, title, deadline) ==
    IF sender # teacher THEN "Only teacher can call this function"
    ELSE IF ~(Len(title) > 0) THEN "Title cannot be empty"
    ELSE "ok"

\* createAssignment without the onlyTeacher modifier
CreateAssignmentResult_NoOnlyTeacher(sender, title, deadline) ==
    IF ~(deadline > now) THEN "Deadline must be in the future"
    ELSE IF ~(Len(title) > 0) THEN "Title cannot be empty"
    ELSE "ok"

CreateAssignmentResult(sender, title, deadline) ==
    IF sender # teacher THEN "Only teacher can call this function"
    ELSE IF ~(deadline > now) THEN "Deadline must be in the future"
    ELSE IF ~(Len(title) > 0) THEN "Title cannot be empty"
    ELSE "ok"

\* uint256 assignmentId = totalAssignments: the id createAssignment returns
NextAssignmentId == totalAssignments

\* createAssignment with totalAssignments++ left out
createAssignment_NoIncrement(sender, title, requirements, deadline) ==
    LET result == CreateAssignmentResult(sender, title, deadline)
        assignmentId == NextAssignmentId
    IN  /\ totalAssignments < MaxAssignments
        /\ result = "ok"
        /\ totalAssignments' = totalAssignments
        /\ assignments' = [assignments EXCEPT ![assignmentId] =
              [id |-> assignmentId, title |-> title,
               requirements |-> requirements, deadline |-> deadline,
               teacher |-> sender, submissionCount |-> 0,
               isGrading |-> FALSE]]
        /\ UNCHANGED <<now, teacher, submissions, grades, acl>>

createAssignment(sender, title, requirements, deadline) ==
    LET result == CreateAssignmentResult(sender, title, deadline)
        assignmentId == NextAssignmentId
    IN  /\ totalAssignments < MaxAssignments
        /\ result = "ok"
        /\ totalAssignments' = totalAssignments + 1
        /\ assignments' = [assignments EXCEPT ![assignmentId] =
              [id |-> assignmentId, title |-> title,
               requirements |-> requirements, deadline |-> deadline,
               teacher |-> sender, submissionCount |-> 0,
               isGrading |-> FALSE]]
        /\ UNCHANGED <<now, teacher, submissions, grades, acl>>

(* ---------------------------- submitAssignment ------------------------- *)
\* submitAssignment without require(!submissions[..].exists, ...)
SubmitAssignmentResult_NoDuplicateCheck(sender, assignmentId, encryptedAnswer, inputProof) ==
    IF ~(sender # teacher) THEN "Teacher cannot submit assignments"
    ELSE IF ~(assignments[assignmentId].deadline > 0)
        THEN "Assignment does not exist"
    ELSE IF ~(now < assignments[assignmentId].deadline)
        THEN "Deadline has passed"
    ELSE IF ~InputVerified(encryptedAnswer, inputProof, sender)
        THEN "Invalid proof"
    ELSE "ok"

\* submitAssignment with require(block.timestamp <= assignment.deadline, ...)
SubmitAssignmentResult_DeadlineInclusive(sender, assignmentId, encryptedAnswer, inputProof) ==
    IF ~(sender # teacher) THEN "Teacher cannot submit assignments"
    ELSE IF ~(assignments[assignmentId].deadline > 0)
        THEN "Assignment does not exist"
    ELSE IF ~(now <= assignments[assignmentId].deadline)
        THEN "Deadline has passed"
    ELSE IF submissions[assignmentId][sender].exists THEN "Already submitted"
    ELSE IF ~InputVerified(encryptedAnswer, inputProof, sender)
        THEN "Invalid proof"
    ELSE "ok"

\* submitAssignment without the onlyStudent modifier
SubmitAssignmentResult_NoOnlyStudent(sender, assignmentId, encryptedAnswer, inputProof) ==
    IF ~(assignments[assignmentId].deadline > 0)
        THEN "Assignment does not exist"
    ELSE IF ~(now < assignments[assignmentId].deadline)
        THEN "Deadline has passed"
    ELSE IF submissions[assignmentId][sender].exists THEN "Already submitted"
    ELSE IF ~InputVerified(encryptedAnswer, inputProof, sender)
        THEN "Invalid proof"
    ELSE "ok"

\* submitAssignment with the existence check ahead of the onlyStudent check
SubmitAssignmentResult_ExistsFirst(sender, assignmentId, encryptedAnswer, inputProof) ==
    IF ~(assignments[assignmentId].deadline > 0)
        THEN "Assignment does not exist"
    ELSE IF ~(sender # teacher) THEN "Teacher cannot submit assignments"
    ELSE IF ~(now < assignments[assignmentId].deadline)
        THEN "Deadline has passed"
    ELSE IF submissions[assignmentId][sender].exists THEN "Already submitted"
    ELSE IF ~InputVerified(encryptedAnswer, inputProof, sender)
        THEN "Invalid proof"
    ELSE "ok"

SubmitAssignmentResult(sender, assignmentId, encryptedAnswer, inputProof) ==
    IF ~(sender # teacher) THEN "Teacher cannot submit assignments"
    ELSE IF ~(assignments[assignmentId].deadline > 0)
        THEN "Assignment does not exist"
    ELSE IF ~(now < assignments[assignmentId].deadline)
        THEN "Deadline has passed"
    ELSE IF submissions[assignmentId][sender].exists THEN "Already submitted"
    ELSE IF ~InputVerified(encryptedAnswer, inputProof, sender)
        THEN "Invalid proof"
    ELSE "ok"

\* assignment.submissionCount++ left out
incrementSubmissionCount_Skipped(asg, assignmentId) == asg

\* submissionCount++ applied to every record instead of the one submitted to
incrementSubmissionCount_Every(asg, assignmentId) ==
    [i \in Ids |-> [asg[i] EXCEPT !.submissionCount = @ + 1]]

\* assignment.submissionCount++
incrementSubmissionCount(asg, assignmentId) ==
    [asg EXCEPT ![assignmentId].submissionCount = @ + 1]

\* submitAssignment with FHE.allow(encryptedEuint32, msg.sender)
submitAssignment_AllowSender(sender, assignmentId, encryptedAnswer, inputProof) ==
    LET result == SubmitAssignmentResult(sender, assignmentId,
                                         encryptedAnswer, inputProof)
        encryptedEuint32 == fromExternal(encryptedAnswer, inputProof, sender)
    IN  /\ result = "ok"
        /\ acl' = allow(allowThis(acl, encryptedEuint32),
                        encryptedEuint32, sender)
        /\ submissions' = [submissions EXCEPT
              ![assignmentId][sender] =
                  [student |-> sender,
                   encryptedAnswer |-> encryptedEuint32,
                   timestamp |-> now, exists |-> TRUE]]
        /\ assignments' = incrementSubmissionCount(assignments,
                                                   assignmentId)
        /\ UNCHANGED <<now, teacher, grades, totalAssignments>>

\* submitAssignment that stores the Submission without exists: true
submitAssignment_ExistsNotSet(sender, assignmentId, encryptedAnswer, inputProof) ==
    LET result == SubmitAssignmentResult(sender, assignmentId,
                                         encryptedAnswer, inputProof)
        encryptedEuint32 == fromExternal(encryptedAnswer, inputProof, sender)
    IN  /\ result = "ok"
        /\ acl' = allow(allowThis(acl, encryptedEuint32),
                        encryptedEuint32, teacher)
        /\ submissions' = [submissions EXCEPT
              ![assignmentId][sender] =
                  [student |-> sender,
                   encryptedAnswer |-> encryptedEuint32,
                   timestamp |-> now, exists |-> FALSE]]
        /\ assignments' = incrementSubmissionCount(assignments,
                                                   assignmentId)
        /\ UNCHANGED <<now, teacher, grades, totalAssignments>>

\* submitAssignment that stores student: teacher instead of msg.sender
submitAssignment_StudentIsTeacher(sender, assignmentId, encryptedAnswer, inputProof) ==
    LET result == SubmitAssignmentResult(sender, assignmentId,
                                         encryptedAnswer, inputProof)
        encryptedEuint32 == fromExternal(encryptedAnswer, inputProof, sender)
    IN  /\ result = "ok"
        /\ acl' = allow(allowThis(acl, encryptedEuint32),
                        encryptedEuint32, teacher)
        /\ submissions' = [submissions EXCEPT
              ![assignmentId][sender] =
                  [student |-> teacher,
                   encryptedAnswer |-> encryptedEuint32,
                   timestamp |-> now, exists |-> TRUE]]
        /\ assignments' = incrementSubmissionCount(assignments,
                                                   assignmentId)
        /\ UNCHANGED <<now, teacher, grades, totalAssignments>>

submitAssignment(sender, assignmentId, encryptedAnswer, inputProof) ==
    LET result == SubmitAssignmentResult(sender, assignmentId,
                                         encryptedAnswer, inputProof)
        encryptedEuint32 == fromExternal(encryptedAnswer, inputProof, sender)
    IN  /\ result = "ok"
        /\ acl' = allow(allowThis(acl, encryptedEuint32),
                        encryptedEuint32, teacher)
        /\ submissions' = [submissions EXCEPT
              ![assignmentId][sender] =
                  [student |-> sender,
                   encryptedAnswer |-> encryptedEuint32,
                   timestamp |-> now, exists |-> TRUE]]
        /\ assignments' = incrementSubmissionCount(assignments,
                                                   assignmentId)
        /\ UNCHANGED <<now, teacher, grades, totalAssignments>>

(* ------------------------------ startGrading --------------------------- *)
\* startGrading without the onlyTeacher modifier
StartGradingResult_NoOnlyTeacher(sender, assignmentId) ==
    IF ~(assignments[assignmentId].deadline > 0)
        THEN "Assignment does not exist"
    ELSE IF ~(now >= assignments[assignmentId].deadline)
        THEN "Deadline has not passed"
    ELSE IF assignments[assignmentId].isGrading THEN "Grading already started"
    ELSE "ok"

\* startGrading without require(!assignment.isGrading, ...)
StartGradingResult_NoStartedCheck(sender, assignmentId) ==
    IF sender # teacher THEN "Only teacher can call this function"
    ELSE IF ~(assignments[assignmentId].deadline > 0)
        THEN "Assignment does not exist"
    ELSE IF ~(now >= assignments[assignmentId].deadline)
        THEN "Deadline has not passed"
    ELSE "ok"

\* startGrading without require(block.timestamp >= assignment.deadline, ...)
StartGradingResult_NoDeadlineCheck(sender, assignmentId) ==
    IF sender # teacher THEN "Only teacher can call this function"
    ELSE IF ~(assignments[assignmentId].deadline > 0)
        THEN "Assignment does not exist"
    ELSE IF assignments[assignmentId].isGrading THEN "Grading already started"
    ELSE "ok"

StartGradingResult(sender, assignmentId) ==
    IF sender # teacher THEN "Only teacher can call this function"
    ELSE IF ~(assignments[assignmentId].deadline > 0)
        THEN "Assignment does not exist"
    ELSE IF ~(now >= assignments[assignmentId].deadline)
        THEN "Deadline has not passed"
    ELSE IF assignments[assignmentId].isGrading THEN "Grading already started"
    ELSE "ok"

\* startGrading that also writes assignment.deadline = block.timestamp
startGrading_MovesDeadline(sender, assignmentId) ==
    LET result == StartGradingResult(sender, assignmentId)
    IN  /\ result = "ok"
        /\ assignments' = [assignments EXCEPT
              ![assignmentId].isGrading = TRUE,
              ![assignmentId].deadline = now]
        /\ UNCHANGED <<now, teacher, submissions, grades,
                       totalAssignments, acl>>

\* startGrading that also writes assignment.submissionCount = 0
startGrading_ResetsCount(sender, assignmentId) ==
    LET result == StartGradingResult(sender, assignmentId)
    IN  /\ result = "ok"
        /\ assignments' = [assignments EXCEPT
              ![assignmentId].isGrading = TRUE,
              ![assignmentId].submissionCount = 0]
        /\ UNCHANGED <<now, teacher, submissions, grades,
                       totalAssignments, acl>>

startGrading(sender, assignmentId) ==
    LET result == StartGradingResult(sender, assignmentId)
    IN  /\ result = "ok"
        /\ assignments' = [assignments EXCEPT
              ![assignmentId].isGrading = TRUE]
        /\ UNCHANGED <<now, teacher, submissions, grades,
                       totalAssignments, acl>>

(* ----------------------------- gradeSubmission ------------------------- *)
\* gradeSubmission without require(submissions[..].exists, ...)
GradeSubmissionResult_NoSubmissionCheck(sender, assignmentId, student, encryptedScore, proof) ==
    IF sender # teacher THEN "Only teacher can call this function"
    ELSE IF ~(assignments[assignmentId].deadline > 0)
        THEN "Assignment does not exist"
    ELSE IF ~(now >= assignments[assignmentId].deadline)
        THEN "Deadline has not passed"
    ELSE IF grades[assignmentId][student].exists THEN "Already graded"
    ELSE IF ~InputVerified(encryptedScore, proof, sender)
        THEN "Invalid proof"
    ELSE "ok"

\* gradeSubmission without require(!grades[..].exists, ...)
GradeSubmissionResult_NoGradedCheck(sender, assignmentId, student, encryptedScore, proof) ==
    IF sender # teacher THEN "Only teacher can call this function"
    ELSE IF ~(assignments[assignmentId].deadline > 0)
        THEN "Assignment does not exist"
    ELSE IF ~(now >= assignments[assignmentId].deadline)
        THEN "Deadline has not passed"
    ELSE IF ~submissions[assignmentId][student].exists
        THEN "Submission does not exist"
    ELSE IF ~InputVerified(encryptedScore, proof, sender)
        THEN "Invalid proof"
    ELSE "ok"

\* gradeSubmission with require(block.timestamp > assignment.deadline, ...)
GradeSubmissionResult_DeadlineExclusive(sender, assignmentId, student, encryptedScore, proof) ==
    IF sender # teacher THEN "Only teacher can call this function"
    ELSE IF ~(assignments[assignmentId].deadline > 0)
        THEN "Assignment does not exist"
    ELSE IF ~(now > assignments[assignmentId].deadline)
        THEN "Deadline has not passed"
    ELSE IF ~submissions[assignmentId][student].exists
        THEN "Submission does not exist"
    ELSE IF grades[assignmentId][student].exists THEN "Already graded"
    ELSE IF ~InputVerified(encryptedScore, proof, sender)
        THEN "Invalid proof"
    ELSE "ok"

\* gradeSubmission with require(assignment.isGrading, ...)
GradeSubmissionResult_RequiresLatch(sender, assignmentId, student, encryptedScore, proof) ==
    IF sender # teacher THEN "Only teacher can call this function"
    ELSE IF ~(assignments[assignmentId].deadline > 0)
        THEN "Assignment does not exist"
    ELSE IF ~(now >= assignments[assignmentId].deadline)
        THEN "Deadline has not passed"
    ELSE IF ~assignments[assignmentId].isGrading THEN "Grading not started"
    ELSE IF ~submissions[assignmentId][student].exists
        THEN "Submission does not exist"
    ELSE IF grades[assignmentId][student].exists THEN "Already graded"
    ELSE IF ~InputVerified(encryptedScore, proof, sender)
        THEN "Invalid proof"
    ELSE "ok"

\* gradeSubmission with the existence check ahead of the onlyTeacher check
GradeSubmissionResult_ExistsFirst(sender, assignmentId, student, encryptedScore, proof) ==
    IF ~(assignments[assignmentId].deadline > 0)
        THEN "Assignment does not exist"
    ELSE IF sender # teacher THEN "Only teacher can call this function"
    ELSE IF ~(now >= assignments[assignmentId].deadline)
        THEN "Deadline has not passed"
    ELSE IF ~submissions[assignmentId][student].exists
        THEN "Submission does not exist"
    ELSE IF grades[assignmentId][student].exists THEN "Already graded"
    ELSE IF ~InputVerified(encryptedScore, proof, sender)
        THEN "Invalid proof"
    ELSE "ok"

\* gradeSubmission without require(block.timestamp >= assignment.deadline, ...)
GradeSubmissionResult_NoDeadlineCheck(sender, assignmentId, student, encryptedScore, proof) ==
    IF sender # teacher THEN "Only teacher can call this function"
    ELSE IF ~(assignments[assignmentId].deadline > 0)
        THEN "Assignment does not exist"
    ELSE IF ~submissions[assignmentId][student].exists
        THEN "Submission does not exist"
    ELSE IF grades[assignmentId][student].exists THEN "Already graded"
    ELSE IF ~InputVerified(encryptedScore, proof, sender)
        THEN "Invalid proof"
    ELSE "ok"

GradeSubmissionResult(sender, assignmentId, student, encryptedScore, proof) ==
    IF sender # teacher THEN "Only teacher can call this function"
    ELSE IF ~(assignments[assignmentId].deadline > 0)
        THEN "Assignment does not exist"
    ELSE IF ~(now >= assignments[assignmentId].deadline)
        THEN "Deadline has not passed"
    ELSE IF ~submissions[assignmentId][student].exists
        THEN "Submission does not exist"
    ELSE IF grades[assignmentId][student].exists THEN "Already graded"
    ELSE IF ~InputVerified(encryptedScore, proof, sender)
        THEN "Invalid proof"
    ELSE "ok"

\* gradeSubmission that stores the grade although FHE.fromExternal rejected
\* the proof
gradeSubmission_NoRevertOnBadProof(sender, assignmentId, student, encryptedScore, inputProof) ==
    LET result == GradeSubmissionResult(sender, assignmentId, student,
                                        encryptedScore, inputProof)
        encryptedEuint32 == fromExternal(encryptedScore, inputProof, sender)
    IN  /\ result \in {"ok", "Invalid proof"}
        /\ acl' = allow(allowThis(acl, encryptedEuint32),
                        encryptedEuint32, student)
        /\ grades' = [grades EXCEPT ![assignmentId][student] =
              [encryptedScore |-> encryptedEuint32,
               timestamp |-> now, exists |-> TRUE]]
        /\ UNCHANGED <<now, teacher, assignments, submissions,
                       totalAssignments>>

\* gradeSubmission that also writes assignment.isGrading = false
gradeSubmission_ClearsLatch(sender, assignmentId, student, encryptedScore, inputProof) ==
    LET result == GradeSubmissionResult(sender, assignmentId, student,
                                        encryptedScore, inputProof)
        encryptedEuint32 == fromExternal(encryptedScore, inputProof, sender)
    IN  /\ result = "ok"
        /\ acl' = allow(allowThis(acl, encryptedEuint32),
                        encryptedEuint32, student)
        /\ grades' = [grades EXCEPT ![assignmentId][student] =
              [encryptedScore |-> encryptedEuint32,
               timestamp |-> now, exists |-> TRUE]]
        /\ assignments' = [assignments EXCEPT
              ![assignmentId].isGrading = FALSE]
        /\ UNCHANGED <<now, teacher, submissions, totalAssignments>>

\* gradeSubmission that stores the Grade without exists: true
gradeSubmission_ExistsNotSet(sender, assignmentId, student, encryptedScore, inputProof) ==
    LET result == GradeSubmissionResult(sender, assignmentId, student,
                                        encryptedScore, inputProof)
        encryptedEuint32 == fromExternal(encryptedScore, inputProof, sender)
    IN  /\ result = "ok"
        /\ acl' = allow(allowThis(acl, encryptedEuint32),
                        encryptedEuint32, student)
        /\ grades' = [grades EXCEPT ![assignmentId][student] =
              [encryptedScore |-> encryptedEuint32,
               timestamp |-> now, exists |-> FALSE]]
        /\ UNCHANGED <<now, teacher, assignments, submissions,
                       totalAssignments>>

gradeSubmission(sender, assignmentId, student, encryptedScore, inputProof) ==
    LET result == GradeSubmissionResult(sender, assignmentId, student,
                                        encryptedScore, inputProof)
        encryptedEuint32 == fromExternal(encryptedScore, inputProof, sender)
    IN  /\ result = "ok"
        /\ acl' = allow(allowThis(acl, encryptedEuint32),
                        encryptedEuint32, student)
        /\ grades' = [grades EXCEPT ![assignmentId][student] =
              [encryptedScore |-> encryptedEuint32,
               timestamp |-> now, exists |-> TRUE]]
        /\ UNCHANGED <<now, teacher, assignments, submissions,
                       totalAssignments>>

(* --------------------------------- views ------------------------------- *)
GetAssignmentResult(assignmentId) ==
    IF ~(assignments[assignmentId].deadline > 0)
        THEN "Assignment does not exist"
    ELSE "ok"

getAssignment(assignmentId) ==
    [title |-> assignments[assignmentId].title,
     requirements |-> assignments[assignmentId].requirements,
     deadline |-> assignments[assignmentId].deadline,
     submissionCount |-> assignments[assignmentId].submissionCount,
     isGrading |-> assignments[assignmentId].isGrading]

\* getSubmission and getGrade have no require: they return for every key.
GetSubmissionResult(assignmentId, student) == "ok"

GetGradeResult(assignmentId, student) == "ok"

getSubmission(assignmentId, student) ==
    [encryptedAnswer |-> submissions[assignmentId][student].encryptedAnswer,
     timestamp |-> submissions[assignmentId][student].timestamp,
     exists |-> submissions[assignmentId][student].exists]

getGrade(assignmentId, student) ==
    [encryptedScore |-> grades[assignmentId][student].encryptedScore,
     timestamp |-> grades[assignmentId][student].timestamp,
     exists |-> grades[assignmentId][student].exists]

hasSubmitted(assignmentId, student) == submissions[assignmentId][student].exists

hasGrade(assignmentId, student) == grades[assignmentId][student].exists

(* ---------------------------- the state machine ------------------------ *)
DoCreateAssignment ==
    \E sender \in Accounts, title \in Titles, requirements \in Requirements,
       deadline \in Deadlines :
        /\ createAssignment(sender, title, requirements, deadline)
        /\ UNCHANGED frontend

DoSubmitAssignment ==
    \E sender \in Accounts, assignmentId \in Ids,
       encryptedAnswer \in ExternalInputs :
      \E inputProof \in Proofs(encryptedAnswer) :
        /\ submitAssignment(sender, assignmentId, encryptedAnswer, inputProof)
        /\ UNCHANGED frontend

DoStartGrading ==
    \E sender \in Accounts, assignmentId \in Ids :
        /\ startGrading(sender, assignmentId)
        /\ UNCHANGED frontend

DoGradeSubmission ==
    \E sender \in Accounts, assignmentId \in Ids, student \in Accounts,
       encryptedScore \in ExternalInputs :
      \E inputProof \in Proofs(encryptedScore) :
        /\ gradeSubmission(sender, assignmentId, student, encryptedScore,
                           inputProof)
        /\ UNCHANGED frontend

Next ==
    \/ Tick
    \/ DoCreateAssignment
    \/ DoSubmitAssignment
    \/ DoStartGrading
    \/ DoGradeSubmission

Spec == Init /\ [][Next]_vars

TypeOK ==
    /\ now \in 1..MaxTime
    /\ teacher \in Accounts
    /\ totalAssignments \in 0..MaxAssignments
    /\ acl \subseteq (ExternalInputs \X (Accounts \cup {This}))

(* ------------------------------- helpers ------------------------------- *)
Allocated(a) == a < totalAssignments

Submitters(a) == {s \in Accounts : submissions[a][s].exists}

\* The principals (teacher, students) that hold a decryption grant over h.
Grantees(h) == {x \in Accounts : <<h, x>> \in acl}

(* ------------------------------ properties ----------------------------- *)
\* C1: in every reachable state the submissionCount of every allocated
\* assignment equals the number of distinct students that have an accepted
\* Submission for it, whatever calls (successful or failed) came before.
C1_SubmissionCountMatches ==
    \A a \in Ids :
        Allocated(a) =>
            assignments[a].submissionCount = Cardinality(Submitters(a))

\* C1 witness: two students have submitted to one assignment, after its
\* deadline, when further calls can only fail.
C1_Witness ==
    \E a \in Ids :
        /\ Allocated(a)
        /\ assignments[a].submissionCount = 2
        /\ Cardinality(Submitters(a)) = 2
        /\ now >= assignments[a].deadline

(* ------------------------------------------------------------------ C2 *)
\* C2 as stated: once a Submission exists for (a, s), every later
\* submitAssignment(a) by s fails with "Already submitted", and the stored
\* record never changes.
C2_AsStated ==
    [][\A a \in Ids, s \in Accounts :
        submissions[a][s].exists =>
            /\ \A e \in ExternalInputs : \A p \in Proofs(e) :
                  SubmitAssignmentResult(s, a, e, p) = "Already submitted"
            /\ submissions'[a][s] = submissions[a][s]]_vars

\* The outcome of a repeated submission, by the code's order of checks.
C2_Refusal(a) ==
    IF now < assignments[a].deadline THEN "Already submitted"
    ELSE "Deadline has passed"

\* C2 (amended): at most one Submission is ever accepted per (a, s): once
\* it exists, every submitAssignment(a) by s fails - with "Already submitted"
\* while now < deadline, with "Deadline has passed" from the deadline on -
\* and the stored record (handle, timestamp) never changes or disappears.
C2_OneSubmission ==
    /\ [](\A a \in Ids, s \in Accounts :
            submissions[a][s].exists =>
                \A e \in ExternalInputs : \A p \in Proofs(e) :
                    SubmitAssignmentResult(s, a, e, p) = C2_Refusal(a))
    /\ [][\A a \in Ids, s \in Accounts :
            submissions[a][s].exists =>
                submissions'[a][s] = submissions[a][s]]_vars

\* C2 witness: a student has submitted and the deadline has not passed yet, so
\* a retry reaches the duplicate check.
C2_Witness ==
    \E a \in Ids, s \in Students :
        /\ submissions[a][s].exists
        /\ now < assignments[a].deadline
        /\ submissions[a][s].timestamp < now

C4_AsStated ==
    [][\A a \in Ids, s \in Accounts :
        grades[a][s].exists =>
            /\ \A c \in Accounts, e \in ExternalInputs : \A p \in Proofs(e) :
                  GradeSubmissionResult(c, a, s, e, p) = "Already graded"
            /\ grades'[a][s] = grades[a][s]]_vars

\* The outcome of a repeated grading, by the code's order of checks.
C4_Refusal(caller) ==
    IF caller = teacher THEN "Already graded"
    ELSE "Only teacher can call this function"

\* C4 (amended): at most one Grade is ever accepted per (a, s): once it
\* exists, every gradeSubmission(a, s) fails - with "Already graded" when the
\* teacher calls, with "Only teacher can call this function" when anyone else
\* does - and the stored record (handle, timestamp) never changes or
\* disappears.
C4_OneGrade ==
    /\ [](\A a \in Ids, s \in Accounts :
            grades[a][s].exists =>
                \A c \in Accounts, e \in ExternalInputs : \A p \in Proofs(e) :
                    GradeSubmissionResult(c, a, s, e, p) = C4_Refusal(c))
    /\ [][\A a \in Ids, s \in Accounts :
            grades[a][s].exists => grades'[a][s] = grades[a][s]]_vars

\* C4 witness: a Grade exists and time has moved on since it was stored.
C4_Witness ==
    \E a \in Ids, s \in Students :
        /\ grades[a][s].exists
        /\ grades[a][s].timestamp < now

C6_GradeDeadline ==
    [](
    \A a \in Ids, s \in Accounts, e \in ExternalInputs : \A p \in Proofs(e) :
        Allocated(a) =>
            /\ now < assignments[a].deadline =>
                  GradeSubmissionResult(teacher, a, s, e, p)
                      = "Deadline has not passed"
            /\ ( /\ now = assignments[a].deadline
                 /\ submissions[a][s].exists
                 /\ ~grades[a][s].exists
                 /\ InputVerified(e, p, teacher) )
               => GradeSubmissionResult(teacher, a, s, e, p) = "ok"
            /\ grades[a][s].exists =>
                  GradeSubmissionResult(teacher, a, s, e, p) # "ok"
    )

\* C6 witness: a Grade stored at now == deadline, seen at a later time.
C6_Witness ==
    \E a \in Ids, s \in Students :
        /\ grades[a][s].exists
        /\ grades[a][s].timestamp = assignments[a].deadline
        /\ now > assignments[a].deadline

(* ------------------------------------------------------------------ C7 *)
\* C7: every submitAssignment by the teacher fails with "Teacher cannot
\* submit assignments", for every id and at every time, and no assignment
\* ever has a Submission keyed by its creator.
C7_NoSelfSubmission ==
    /\ \A a \in Ids, e \in ExternalInputs : \A p \in Proofs(e) :
          SubmitAssignmentResult(teacher, a, e, p)
              = "Teacher cannot submit assignments"
    /\ \A a \in Ids :
          Allocated(a) => ~submissions[a][assignments[a].teacher].exists

\* C7 witness: an assignment of the teacher is open for submissions and a
\* student has already submitted to it.
C7_Witness ==
    \E a \in Ids :
        /\ Allocated(a)
        /\ assignments[a].teacher = teacher
        /\ now < assignments[a].deadline
        /\ Submitters(a) # {}

(* ------------------------------------------------------------------ C8 *)
\* C8: while now < deadline the teacher holds no decryption grant over the
\* answer handle of any Submission to the assignment.
C8_NoGrantBeforeDeadline ==
    \A a \in Ids, s \in Accounts :
        ( /\ Allocated(a)
          /\ now < assignments[a].deadline
          /\ submissions[a][s].exists )
        => <<submissions[a][s].encryptedAnswer, teacher>> \notin acl

(* ------------------------------------------------------------------ C9 *)
\* C9: the principals holding a decryption grant over the score handle that
\* getGrade(a, s) returns are the student s and nobody else.
C9_GradeForStudentOnly ==
    \A a \in Ids, s \in Accounts :
        getGrade(a, s).exists =>
            Grantees(getGrade(a, s).encryptedScore) = {s}

(* ----------------------------------------------------------------- C10 *)
\* C10: the answer handle of an accepted Submission is granted to the
\* creator of the assignment and not to the submitting student, and no later
\* operation adds a grant over that handle.
C10_AnswerForTeacherOnly ==
    /\ [](\A a \in Ids, s \in Accounts :
            submissions[a][s].exists =>
                /\ <<submissions[a][s].encryptedAnswer,
                     assignments[a].teacher>> \in acl
                /\ <<submissions[a][s].encryptedAnswer, s>> \notin acl)
    /\ [][\A a \in Ids, s \in Accounts :
            submissions[a][s].exists =>
                \A x \in Accounts \cup {This} :
                    <<submissions[a][s].encryptedAnswer, x>> \in acl'
                        => <<submissions[a][s].encryptedAnswer, x>> \in acl]_vars

\* C10 witness: a Submission whose student has since been graded, so grants
\* were handed out after the answer was stored.
C10_Witness ==
    \E a \in Ids, s \in Students :
        /\ submissions[a][s].exists
        /\ grades[a][s].exists
        /\ Grantees(submissions[a][s].encryptedAnswer) = {teacher}
        /\ Grantees(grades[a][s].encryptedScore) # {}

(* ----------------------------------------------------------------- C11 *)
\* The handles held by the stored Submissions and Grades.
StoredHandles ==
    UNION {{submissions[a][s].encryptedAnswer : s \in Submitters(a)}
           \cup {grades[a][s].encryptedScore :
                    s \in {x \in Accounts : grades[a][x].exists}} :
           a \in Ids}

C12_GradingIgnoresLatch ==
    /\ [](\A a \in Ids, s \in Accounts, e \in ExternalInputs :
            ( /\ Allocated(a)
              /\ now >= assignments[a].deadline
              /\ submissions[a][s].exists
              /\ ~grades[a][s].exists
              /\ InputVerified(e, e, teacher) )
            => GradeSubmissionResult(teacher, a, s, e, e) = "ok")
    /\ [][( /\ assignments' # assignments
            /\ \A a \in Ids :
                 [assignments'[a] EXCEPT !.isGrading = assignments[a].isGrading]
                     = assignments[a]
            /\ UNCHANGED <<now, teacher, submissions, grades,
                           totalAssignments, acl>> )
          => \A c \in Accounts, a \in Ids, s \in Accounts,
                e \in ExternalInputs : \A p \in Proofs(e) :
                 GradeSubmissionResult(c, a, s, e, p)'
                     = GradeSubmissionResult(c, a, s, e, p)]_vars

\* C12 witness: a student was graded while isGrading is still false, and
\* another submitted student is waiting for a grade.
C12_Witness ==
    \E a \in Ids, s1 \in Students, s2 \in Students :
        /\ ~assignments[a].isGrading
        /\ grades[a][s1].exists
        /\ submissions[a][s2].exists
        /\ ~grades[a][s2].exists
        /\ now >= assignments[a].deadline

(* ----------------------------------------------------------------- C13 *)
\* C13: in every state, gradeSubmission and startGrading by any caller other
\* than the teacher fail with "Only teacher can call this function", and so
\* does createAssignment; the teacher is the creator of every allocated
\* assignment, and every step that creates an Assignment, sets isGrading or
\* stores a Grade is a call by the teacher.
C13_OnlyTeacher ==
    /\ [](/\ \A c \in Accounts \ {teacher}, a \in Ids :
             /\ StartGradingResult(c, a)
                   = "Only teacher can call this function"
             /\ \A s \in Accounts, e \in ExternalInputs :
                   \A p \in Proofs(e) :
                     GradeSubmissionResult(c, a, s, e, p)
                         = "Only teacher can call this function"
          /\ \A c \in Accounts \ {teacher}, t \in Titles, d \in Deadlines :
               CreateAssignmentResult(c, t, d)
                   = "Only teacher can call this function"
          /\ \A a \in Ids :
               Allocated(a) => assignments[a].teacher = teacher)
    /\ [][/\ totalAssignments' # totalAssignments =>
               \E t \in Titles, r \in Requirements, d \in Deadlines :
                   createAssignment(teacher, t, r, d)
          /\ \A a \in Ids :
               assignments'[a].isGrading # assignments[a].isGrading =>
                   startGrading(teacher, a)
          /\ \A a \in Ids, s \in Accounts :
               grades'[a][s] # grades[a][s] =>
                   \E e \in ExternalInputs : \E p \in Proofs(e) :
                       gradeSubmission(teacher, a, s, e, p)]_vars

\* C13 witness: the teacher created an assignment, started grading and graded
\* a student, while another student's submission is ungraded, so that a grade
\* call by a student would pass every check but the caller's.
C13_Witness ==
    \E a \in Ids, s1 \in Students, s2 \in Students :
        /\ assignments[a].teacher = teacher
        /\ assignments[a].isGrading
        /\ grades[a][s1].exists
        /\ submissions[a][s2].exists
        /\ ~grades[a][s2].exists

Created == {a \in Ids : assignments[a] # NoAssignment}

C16_GradingLatch ==
    [][\A a \in Ids :
        /\ (a \notin Created /\ assignments'[a] # NoAssignment)
              => ~assignments'[a].isGrading
        /\ assignments[a].isGrading => assignments'[a].isGrading]_vars

\* C16 witness: grading was started and a grade was stored afterwards or
\* before, with isGrading still true.
C16_Witness ==
    \E a \in Ids, s \in Students :
        /\ assignments[a].isGrading
        /\ grades[a][s].exists
        /\ now > assignments[a].deadline

(* ----------------------------------------------------------------- C17 *)
\* C17: startGrading(a) by the teacher fails with "Assignment does not exist"
\* for a never-allocated id, with "Deadline has not passed" while
\* now < deadline (isGrading is then false), with "Grading already started"
\* whenever isGrading is true, and succeeds exactly when the assignment
\* exists, now >= deadline and isGrading is false; after a success every
\* further call fails, so it succeeds at most once per assignment.
C17_StartGrading ==
    /\ [](\A a \in Ids :
            /\ StartGradingResult(teacher, a) =
                  IF ~Allocated(a) THEN "Assignment does not exist"
                  ELSE IF now < assignments[a].deadline
                      THEN "Deadline has not passed"
                  ELSE IF assignments[a].isGrading
                      THEN "Grading already started"
                  ELSE "ok"
            /\ assignments[a].isGrading
                  => StartGradingResult(teacher, a) = "Grading already started"
            /\ (Allocated(a) /\ now < assignments[a].deadline)
                  => ~assignments[a].isGrading)
    /\ [][\A a \in Ids :
            assignments[a].isGrading
                => StartGradingResult(teacher, a)' = "Grading already started"]_vars

\* C17 witness: grading was started at now == deadline.
C17_Witness ==
    \E a \in Ids :
        /\ Allocated(a)
        /\ assignments[a].isGrading
        /\ now = assignments[a].deadline

(* ----------------------------------------------------------------- C18 *)
\* C18 as stated: submitAssignment reports the first violated check in the
\* order "Assignment does not exist", "Teacher cannot submit assignments",
\* "Deadline has passed", "Already submitted"; in particular the teacher
\* submitting to a never-allocated id gets "Assignment does not exist".
C18_AsStated ==
    \A c \in Accounts, a \in Ids, e \in ExternalInputs : \A p \in Proofs(e) :
        InputVerified(e, p, c) =>
            SubmitAssignmentResult(c, a, e, p) =
                IF ~Allocated(a) THEN "Assignment does not exist"
                ELSE IF c = teacher THEN "Teacher cannot submit assignments"
                ELSE IF now >= assignments[a].deadline
                    THEN "Deadline has passed"
                ELSE IF submissions[a][c].exists THEN "Already submitted"
                ELSE "ok"

\* C18: submitAssignment reports the first violated check in the order
\* "Teacher cannot submit assignments", "Assignment does not exist",
\* "Deadline has passed", "Already submitted": the teacher gets "Teacher
\* cannot submit assignments" for a never-allocated id and after the
\* deadline, another caller gets "Assignment does not exist" for a
\* never-allocated id, and a student who already submitted and retries at
\* now >= deadline gets "Deadline has passed".
C18_SubmitCheckOrder ==
    [](
    \A c \in Accounts, a \in Ids, e \in ExternalInputs : \A p \in Proofs(e) :
        /\ InputVerified(e, p, c) =>
              SubmitAssignmentResult(c, a, e, p) =
                  IF c = teacher THEN "Teacher cannot submit assignments"
                  ELSE IF ~Allocated(a) THEN "Assignment does not exist"
                  ELSE IF now >= assignments[a].deadline
                      THEN "Deadline has passed"
                  ELSE IF submissions[a][c].exists THEN "Already submitted"
                  ELSE "ok"
        /\ (c = teacher /\ ~Allocated(a))
              => SubmitAssignmentResult(c, a, e, p)
                    = "Teacher cannot submit assignments"
        /\ (c = teacher /\ Allocated(a) /\ now >= assignments[a].deadline)
              => SubmitAssignmentResult(c, a, e, p)
                    = "Teacher cannot submit assignments"
        /\ (c # teacher /\ submissions[a][c].exists
              /\ now >= assignments[a].deadline)
              => SubmitAssignmentResult(c, a, e, p) = "Deadline has passed"
    )

\* C18 witness: the deadline of an assignment has passed, a student has
\* submitted to it, and another id was never allocated.
C18_Witness ==
    \E a \in Ids, b \in Ids, s \in Students :
        /\ Allocated(a)
        /\ ~Allocated(b)
        /\ submissions[a][s].exists
        /\ now >= assignments[a].deadline

(* ----------------------------------------------------------------- C19 *)
\* C19 as stated: gradeSubmission reports the first violated check in the
\* order "Assignment does not exist", "Only teacher can call this function",
\* "Deadline has not passed", "Submission does not exist", "Already graded";
\* in particular a caller other than the teacher grading a never-allocated id
\* gets "Assignment does not exist".
C19_AsStated ==
    \A c \in Accounts, a \in Ids, s \in Accounts, e \in ExternalInputs :
      \A p \in Proofs(e) :
        InputVerified(e, p, c) =>
            GradeSubmissionResult(c, a, s, e, p) =
                IF ~Allocated(a) THEN "Assignment does not exist"
                ELSE IF c # teacher THEN "Only teacher can call this function"
                ELSE IF now < assignments[a].deadline
                    THEN "Deadline has not passed"
                ELSE IF ~submissions[a][s].exists
                    THEN "Submission does not exist"
                ELSE IF grades[a][s].exists THEN "Already graded"
                ELSE "ok"

\* C19: gradeSubmission reports the first violated check in the order "Only
\* teacher can call this function", "Assignment does not exist", "Deadline
\* has not passed", "Submission does not exist", "Already graded": a caller
\* other than the teacher gets "Only teacher can call this function" for a
\* never-allocated id and before the deadline, the teacher grading a student
\* with no Submission gets "Deadline has not passed" before the deadline and
\* "Submission does not exist" from the deadline on.
C19_GradeCheckOrder ==
    [](
    \A c \in Accounts, a \in Ids, s \in Accounts, e \in ExternalInputs :
      \A p \in Proofs(e) :
        /\ InputVerified(e, p, c) =>
              GradeSubmissionResult(c, a, s, e, p) =
                  IF c # teacher THEN "Only teacher can call this function"
                  ELSE IF ~Allocated(a) THEN "Assignment does not exist"
                  ELSE IF now < assignments[a].deadline
                      THEN "Deadline has not passed"
                  ELSE IF ~submissions[a][s].exists
                      THEN "Submission does not exist"
                  ELSE IF grades[a][s].exists THEN "Already graded"
                  ELSE "ok"
        /\ (c # teacher /\ ~Allocated(a))
              => GradeSubmissionResult(c, a, s, e, p)
                    = "Only teacher can call this function"
        /\ (c # teacher /\ Allocated(a) /\ now < assignments[a].deadline)
              => GradeSubmissionResult(c, a, s, e, p)
                    = "Only teacher can call this function"
        /\ (c = teacher /\ Allocated(a) /\ ~submissions[a][s].exists)
              => GradeSubmissionResult(c, a, s, e, p) =
                    IF now < assignments[a].deadline
                        THEN "Deadline has not passed"
                        ELSE "Submission does not exist"
    )

\* C19 witness: from the deadline on, one student of an assignment is graded
\* and another never submitted, while another id was never allocated.
C19_Witness ==
    \E a \in Ids, b \in Ids, s1 \in Students, s2 \in Students :
        /\ Allocated(a)
        /\ ~Allocated(b)
        /\ now >= assignments[a].deadline
        /\ grades[a][s1].exists
        /\ ~submissions[a][s2].exists

(* ----------------------------------------------------------------- C20 *)
\* C20: getAssignment(id) succeeds exactly for id < totalAssignments and
\* fails with "Assignment does not exist" otherwise: the stored deadline of a
\* record is > 0 exactly when the record was created; on success it returns
\* the stored title, requirements, deadline, submissionCount and isGrading.
C20_GetAssignment ==
    \A id \in Ids :
        /\ GetAssignmentResult(id) =
              IF id < totalAssignments THEN "ok"
              ELSE "Assignment does not exist"
        /\ assignments[id].deadline > 0 <=> id \in Created
        /\ GetAssignmentResult(id) = "ok" =>
              /\ getAssignment(id).title = assignments[id].title
              /\ getAssignment(id).requirements = assignments[id].requirements
              /\ getAssignment(id).deadline = assignments[id].deadline
              /\ getAssignment(id).submissionCount
                    = Cardinality(Submitters(id))
              /\ getAssignment(id).isGrading = assignments[id].isGrading

\* C20 witness: one id holds a record that has a submission and whose
\* grading has started, and another id was never allocated.
C20_Witness ==
    \E id \in Ids, other \in Ids :
        /\ GetAssignmentResult(id) = "ok"
        /\ getAssignment(id).submissionCount > 0
        /\ getAssignment(id).isGrading
        /\ GetAssignmentResult(other) = "Assignment does not exist"

(* ----------------------------------------------------------------- C21 *)
\* C21 as stated: getSubmission(a, s) fails whenever no Submission exists
\* for (a, s), and getGrade(a, s) fails whenever no Grade exists for (a, s).
C21_AsStated ==
    \A a \in Ids, s \in Accounts :
        /\ ~submissions[a][s].exists => GetSubmissionResult(a, s) # "ok"
        /\ ~grades[a][s].exists => GetGradeResult(a, s) # "ok"

\* C21: getSubmission and getGrade never fail: for a key with no Submission
\* (Grade) they return exists = false with the zero handle and timestamp 0;
\* a handle other than the zero handle or a timestamp other than 0 is
\* returned only with exists = true, and is then the stored record's.
C21_GetRecord ==
    \A a \in Ids, s \in Accounts :
        /\ GetSubmissionResult(a, s) = "ok"
        /\ GetGradeResult(a, s) = "ok"
        /\ ~submissions[a][s].exists =>
              getSubmission(a, s) = [encryptedAnswer |-> ZeroHandle,
                                     timestamp |-> 0, exists |-> FALSE]
        /\ ~grades[a][s].exists =>
              getGrade(a, s) = [encryptedScore |-> ZeroHandle,
                                timestamp |-> 0, exists |-> FALSE]
        /\ getSubmission(a, s).exists =>
              /\ getSubmission(a, s).encryptedAnswer \in ExternalInputs
              /\ getSubmission(a, s).timestamp \in 1..now
        /\ getGrade(a, s).exists =>
              /\ getGrade(a, s).encryptedScore \in ExternalInputs
              /\ getGrade(a, s).timestamp \in 1..now

\* C21 witness: one key holds a Submission and a Grade while another key of
\* the same assignment holds neither.
C21_Witness ==
    \E a \in Ids, s1 \in Students, s2 \in Students :
        /\ getSubmission(a, s1).exists
        /\ getGrade(a, s1).exists
        /\ ~getSubmission(a, s2).exists
        /\ ~getGrade(a, s2).exists

(* ----------------------------------------------------------------- C22 *)
\* C22: hasSubmitted and hasGrade return a boolean for every id, allocated
\* or not, and every account; both are false for a never-allocated id;
\* hasSubmitted(a, s) is true after a step exactly when it was true before or
\* the step is a submitAssignment(a) by s, and hasGrade(a, s) is true after a
\* step exactly when it was true before or the step is a gradeSubmission(a, s)
\* by the teacher; the count of the accounts with hasSubmitted(a, .) is the
\* submissionCount of a.
C22_HasSubmittedHasGrade ==
    /\ [](\A a \in Ids, s \in Accounts :
            /\ hasSubmitted(a, s) \in BOOLEAN
            /\ hasGrade(a, s) \in BOOLEAN
            /\ ~Allocated(a) => (~hasSubmitted(a, s) /\ ~hasGrade(a, s))
            /\ hasSubmitted(a, s) <=> getSubmission(a, s).timestamp >= 1
            /\ hasGrade(a, s) <=> getGrade(a, s).timestamp >= 1
            /\ assignments[a].submissionCount =
                  Cardinality({x \in Accounts : hasSubmitted(a, x)}))
    /\ [][\A a \in Ids, s \in Accounts :
            /\ hasSubmitted(a, s)' <=>
                  \/ hasSubmitted(a, s)
                  \/ /\ submissions'[a][s] # submissions[a][s]
                     /\ \E e \in ExternalInputs : \E p \in Proofs(e) :
                           submitAssignment(s, a, e, p)
            /\ hasGrade(a, s)' <=>
                  \/ hasGrade(a, s)
                  \/ /\ grades'[a][s] # grades[a][s]
                     /\ \E e \in ExternalInputs : \E p \in Proofs(e) :
                           gradeSubmission(teacher, a, s, e, p)]_vars

\* C22 witness: for one assignment a student has submitted and been graded,
\* another has done neither, and another id was never allocated.
C22_Witness ==
    \E a \in Ids, b \in Ids, s1 \in Students, s2 \in Students :
        /\ hasSubmitted(a, s1)
        /\ hasGrade(a, s1)
        /\ ~hasSubmitted(a, s2)
        /\ ~hasGrade(a, s2)
        /\ ~Allocated(b)
        /\ ~hasSubmitted(b, s1)

(* ----------------------------------------------------------------- C23 *)
\* The id, title, requirements, deadline and creator of a stored record.
Identity(asg) ==
    <<asg.id, asg.title, asg.requirements, asg.deadline, asg.teacher>>

C24_PastDeadlineFlow ==
    /\ now - 1 > 0 =>
          CreateAssignmentResult(teacher, "Test Assignment", now - 1) = "ok"
    /\ \A a \in Ids :
          (Allocated(a) /\ assignments[a].deadline = now - 1) =>
              /\ \A s \in Students, e \in ExternalInputs :
                    (~submissions[a][s].exists /\ InputVerified(e, e, s))
                        => SubmitAssignmentResult(s, a, e, e) = "ok"
              /\ ~assignments[a].isGrading
                    => StartGradingResult(teacher, a) = "ok"
              /\ \A s \in Students, e \in ExternalInputs :
                    ( /\ submissions[a][s].exists
                      /\ ~grades[a][s].exists
                      /\ InputVerified(e, e, teacher) )
                        => GradeSubmissionResult(teacher, a, s, e, e) = "ok"

(* ----------------------------------------------------------------- C25 *)
\* C25: along the reference trace of an assignment a and a student s, with
\* valid proofs: before the deadline, the first submit of s succeeds; once s
\* is the only submitter submissionCount is 1, a second submit of s fails
\* with "Already submitted" and the teacher's grade of s fails with "Deadline
\* has not passed"; from the deadline on the teacher's grade of s succeeds,
\* and once the Grade is stored a further grade of s fails with "Already
\* graded".
C25_ReferenceTrace ==
    \A a \in Ids, s \in Students, e \in ExternalInputs, g \in ExternalInputs :
        (Allocated(a) /\ InputVerified(e, e, s) /\ InputVerified(g, g, teacher))
        =>
        /\ (now < assignments[a].deadline /\ ~submissions[a][s].exists)
              => SubmitAssignmentResult(s, a, e, e) = "ok"
        /\ Submitters(a) = {s} => assignments[a].submissionCount = 1
        /\ (now < assignments[a].deadline /\ submissions[a][s].exists)
              => /\ SubmitAssignmentResult(s, a, e, e) = "Already submitted"
                 /\ GradeSubmissionResult(teacher, a, s, g, g)
                       = "Deadline has not passed"
                 /\ ~grades[a][s].exists
        /\ ( /\ now >= assignments[a].deadline
             /\ submissions[a][s].exists
             /\ ~grades[a][s].exists )
              => GradeSubmissionResult(teacher, a, s, g, g) = "ok"
        /\ grades[a][s].exists
              => GradeSubmissionResult(teacher, a, s, g, g) = "Already graded"

\* C25 witness: the end of the trace: s alone submitted before the deadline,
\* was graded at or after it, and the clock has moved on since.
C25_Witness ==
    \E a \in Ids, s \in Students :
        /\ Submitters(a) = {s}
        /\ assignments[a].submissionCount = 1
        /\ submissions[a][s].timestamp < assignments[a].deadline
        /\ grades[a][s].exists
        /\ grades[a][s].timestamp >= assignments[a].deadline
        /\ now > grades[a][s].timestamp

(* ----------------------------------------------------------------- C26 *)
\* C26: a successful submitAssignment(a) by s stores submissions[a][s] with
\* student = s and timestamp = now, adds one to assignments[a].submissionCount
\* and adds grants over the ingested handle only; it changes no other
\* Submission, no other field of assignment a, no other assignment, no Grade,
\* and neither totalAssignments nor teacher.
C26_SubmitFrame ==
    [][\A a \in Ids, s \in Accounts :
        submissions'[a][s] # submissions[a][s] =>
          \A e \in ExternalInputs : \A p \in Proofs(e) :
            submitAssignment(s, a, e, p) =>
              /\ submissions'[a][s].student = s
              /\ submissions'[a][s].timestamp = now
              /\ submissions'[a][s].exists
              /\ \A b \in Ids, x \in Accounts :
                    (b # a \/ x # s) => submissions'[b][x] = submissions[b][x]
              /\ assignments'[a] =
                    [assignments[a] EXCEPT !.submissionCount = @ + 1]
              /\ \A b \in Ids \ {a} : assignments'[b] = assignments[b]
              /\ grades' = grades
              /\ totalAssignments' = totalAssignments
              /\ teacher' = teacher
              /\ acl \subseteq acl'
              /\ \A g \in acl' \ acl :
                    g[1] = submissions'[a][s].encryptedAnswer]_vars

\* C26 witness: a second student submitted after the first, to an assignment
\* that stands next to an unused id.
C26_Witness ==
    \E a \in Ids, b \in Ids, s1 \in Students, s2 \in Students :
        /\ submissions[a][s1].exists
        /\ submissions[a][s2].exists
        /\ submissions[a][s1].timestamp < submissions[a][s2].timestamp
        /\ assignments[a].submissionCount = 2
        /\ assignments[b] = NoAssignment

(* ----------------------------------------------------------------- C27 *)
\* C27: submissionCount never decreases and changes only in a step that
\* stores a new Submission for that assignment; a successful createAssignment
\* starts the new record at 0 and changes no other record, no Submission, no
\* Grade and no grant; a successful startGrading(a) changes only
\* assignments[a].isGrading; a successful gradeSubmission(a, s) changes only
\* grades[a][s] and adds grants over the new score handle only.
C27_CountOnlyBySubmission ==
    [][/\ \A a \in Ids :
            /\ assignments'[a].submissionCount
                  >= assignments[a].submissionCount
            /\ assignments'[a].submissionCount
                  # assignments[a].submissionCount
                  => \E s \in Accounts :
                        ~hasSubmitted(a, s) /\ hasSubmitted(a, s)'
       /\ totalAssignments' # totalAssignments =>
            \A t \in Titles, r \in Requirements, d \in Deadlines :
              createAssignment(teacher, t, r, d) =>
                /\ assignments'[NextAssignmentId].submissionCount = 0
                /\ \A a \in Ids \ {NextAssignmentId} :
                      assignments'[a] = assignments[a]
                /\ UNCHANGED <<submissions, grades, acl>>
       /\ \A a \in Ids :
            assignments'[a].isGrading # assignments[a].isGrading =>
              (startGrading(teacher, a) =>
                /\ assignments' = [assignments EXCEPT ![a].isGrading = TRUE]
                /\ UNCHANGED <<submissions, grades, totalAssignments, acl>>)
       /\ \A a \in Ids, s \in Accounts :
            grades'[a][s] # grades[a][s] =>
              \A e \in ExternalInputs : \A p \in Proofs(e) :
                gradeSubmission(teacher, a, s, e, p) =>
                  /\ UNCHANGED <<assignments, submissions, totalAssignments>>
                  /\ \A b \in Ids, x \in Accounts :
                        (b # a \/ x # s) => grades'[b][x] = grades[b][x]
                  /\ acl \subseteq acl'
                  /\ \A g \in acl' \ acl :
                        g[1] = grades'[a][s].encryptedScore]_vars

\* C27 witness: after two submissions, grading was started and a student was
\* graded, and submissionCount is still 2.
C27_Witness ==
    \E a \in Ids, s \in Students :
        /\ assignments[a].submissionCount = 2
        /\ Cardinality(Submitters(a)) = 2
        /\ assignments[a].isGrading
        /\ grades[a][s].exists

(* ----------------------------------------------------------------- C28 *)
\* Assignment a takes no more submissions: its deadline is reached, its
\* grading was started, or a Grade for it is stored.
Closed(a) ==
    \/ now >= assignments[a].deadline
    \/ assignments[a].isGrading
    \/ \E s \in Accounts : grades[a][s].exists

C29_CreatorIsTeacher ==
    /\ teacher = Deployer
    /\ \A a \in Ids :
          Allocated(a) =>
              /\ assignments[a].teacher = teacher
              /\ \A e \in ExternalInputs : \A p \in Proofs(e) :
                    SubmitAssignmentResult(assignments[a].teacher, a, e, p)
                        = "Teacher cannot submit assignments"
              /\ \A c \in Accounts \ {assignments[a].teacher} :
                    /\ StartGradingResult(c, a)
                          = "Only teacher can call this function"
                    /\ \A s \in Accounts, e \in ExternalInputs :
                          \A p \in Proofs(e) :
                            GradeSubmissionResult(c, a, s, e, p)
                                = "Only teacher can call this function"
              /\ \A s \in Submitters(a) :
                    <<submissions[a][s].encryptedAnswer,
                      assignments[a].teacher>> \in acl

\* C29 witness: an assignment created by the deployer, holding a Submission
\* and a Grade.
C29_Witness ==
    \E a \in Ids, s \in Students :
        /\ Allocated(a)
        /\ assignments[a].teacher = Deployer
        /\ submissions[a][s].exists
        /\ grades[a][s].exists

(* ----------------------------------------------------------------- C30 *)
\* C30: in every state, isGrading of an assignment implies that the
\* assignment is allocated and now >= its deadline, so that no
\* submitAssignment to it succeeds while the latch is set.
C30_LatchAfterDeadline ==
    \A a \in Ids :
        assignments[a].isGrading =>
            /\ Allocated(a)
            /\ now >= assignments[a].deadline
            /\ \A c \in Accounts, e \in ExternalInputs : \A p \in Proofs(e) :
                  SubmitAssignmentResult(c, a, e, p) # "ok"

\* C30 witness: the latch is set while a student who never submitted is
\* turned away by the deadline check.
C30_Witness ==
    \E a \in Ids, s \in Students, e \in ExternalInputs :
        /\ assignments[a].isGrading
        /\ ~submissions[a][s].exists
        /\ InputVerified(e, e, s)
        /\ SubmitAssignmentResult(s, a, e, e) = "Deadline has passed"

(* ----------------------------------------------------------------- C31 *)
\* C31: in every state a Submission or Grade exists only for an allocated
\* assignment, a Submission stored under (a, s) has student = s, and a record
\* with exists = false is the default record: zero handle, zero timestamp
\* (and, for a Submission, the zero address as student).
C31_RecordsUnderOwnKey ==
    \A a \in Ids, s \in Accounts :
        /\ (submissions[a][s].exists \/ grades[a][s].exists) => Allocated(a)
        /\ submissions[a][s].exists =>
              /\ submissions[a][s].student = s
              /\ s # teacher
        /\ ~submissions[a][s].exists =>
              /\ submissions[a][s].encryptedAnswer = ZeroHandle
              /\ submissions[a][s].timestamp = 0
              /\ submissions[a][s].student = NoAddress
        /\ ~grades[a][s].exists =>
              /\ grades[a][s].encryptedScore = ZeroHandle
              /\ grades[a][s].timestamp = 0

\* C31 witness: both students submitted to an allocated assignment, one of
\* them is graded, and an unallocated id holds no record.
C31_Witness ==
    \E a \in Ids, b \in Ids :
        /\ Allocated(a)
        /\ ~Allocated(b)
        /\ Submitters(a) = Students
        /\ \E s \in Students : grades[a][s].exists
        /\ \E s \in Students : ~grades[a][s].exists
        /\ Submitters(b) = {}

(* ======================================================================= *)
(* The web frontend.  A component's handler is one step: it reads the      *)
(* hooks' current values, and what it sends with writeContract goes to     *)
(* mempool, where a later step (Mine) runs it against the contract.        *)
(* ======================================================================= *)

(* ------------------------------- parseInt ------------------------------ *)
\* A JavaScript number as the handlers use it: NaN or an integer.
NaN == [isNaN |-> TRUE, value |-> 0]
Number(v) == [isNaN |-> FALSE, value |-> v]
isNaN(x) == x.isNaN
\* x < k and x > k: a comparison with NaN is false.
Less(x, k) == ~x.isNaN /\ x.value < k
Greater(x, k) == ~x.isNaN /\ x.value > k

DigitChars == <<"0", "1", "2", "3", "4", "5", "6", "7", "8", "9">>
IsDigit(c) == \E i \in 1..10 : DigitChars[i] = c
DigitValue(c) == (CHOOSE i \in 1..10 : DigitChars[i] = c) - 1

RECURSIVE TrimStart(_)
TrimStart(text) ==
    IF text # EmptyText /\ Head(text) = " " THEN TrimStart(Tail(text))
    ELSE text

\* The value of the decimal digits text starts with, after the digits acc.
RECURSIVE ReadDigits(_, _)
ReadDigits(text, acc) ==
    IF text # EmptyText /\ IsDigit(Head(text))
    THEN ReadDigits(Tail(text), 10 * acc + DigitValue(Head(text)))
    ELSE acc

\* parseInt(text, 10): leading blanks are skipped, then an optional sign, then
\* decimal digits up to the first other character; NaN when no digit is read.
parseInt(text) ==
    LET trimmed == TrimStart(text)
        signed == trimmed # EmptyText /\ Head(trimmed) \in {"-", "+"}
        body == IF signed THEN Tail(trimmed) ELSE trimmed
        magnitude == ReadDigits(body, 0)
    IN  IF body = EmptyText \/ ~IsDigit(Head(body)) THEN NaN
        ELSE IF signed /\ Head(trimmed) = "-" THEN Number(0 - magnitude)
        ELSE Number(magnitude)

\* What a user may type into the answer and score fields.
TextInputs ==
    { EmptyText, <<"a">>, <<"-", "1">>, <<"0">>, <<"3", ".", "7">>,
      <<"1", "0", "0">>, <<"1", "0", "1">> }

(* ------------------------------ the clock ------------------------------ *)
\* Date.now() during the second block.timestamp = now: milliseconds.
Millis == {0, 999}
DateNow == {now * 1000 + ms : ms \in Millis}

(* ---------------------------- AssignmentCard --------------------------- *)
\* isDeadlinePassed with timestamp < instead of <=
isDeadlinePassed_Exclusive(timestamp, dateNow) ==
    timestamp > 0 /\ timestamp < dateNow \div 1000

isDeadlinePassed(timestamp, dateNow) ==
    timestamp > 0 /\ timestamp <= dateNow \div 1000

\* The card is the teacher's (TeacherDashboard) or a student's (Index).
isTeacher == location = "/teacher"

\* data of useReadContract(hasSubmitted): undefined (falsy) while disabled.
hasSubmittedData(assignmentId) ==
    IF ~isTeacher /\ isConnected /\ address # Undefined
    THEN hasSubmitted(assignmentId, address)
    ELSE FALSE

deadlinePassed(assignmentId, dateNow) ==
    isDeadlinePassed(getAssignment(assignmentId).deadline, dateNow)

canSubmit(assignmentId, dateNow) ==
    /\ ~isTeacher
    /\ ~deadlinePassed(assignmentId, dateNow)
    /\ ~hasSubmittedData(assignmentId)
    /\ isConnected

\* The card renders once getAssignment has returned.
CardRendered(assignmentId) == GetAssignmentResult(assignmentId) = "ok"

\* render: the "Submit Assignment" trigger is there and enabled.
SubmitDialogOffered(assignmentId, dateNow) ==
    /\ CardRendered(assignmentId)
    /\ ~isTeacher
    /\ ~hasSubmittedData(assignmentId)
    /\ ~deadlinePassed(assignmentId, dateNow)
    /\ isConnected

\* render: the "Start Grading" button, which opens the GradingDialog.
StartGradingShown(assignmentId, dateNow) ==
    /\ CardRendered(assignmentId)
    /\ isTeacher
    /\ deadlinePassed(assignmentId, dateNow)

\* A transaction as sent: the call, and the cleartext that was encrypted into
\* its external input.
SubmitTx(sender, assignmentId, value, input) ==
    [functionName |-> "submitAssignment", sender |-> sender,
     assignmentId |-> assignmentId, student |-> sender, value |-> value,
     input |-> input]

GradeTx(sender, assignmentId, student, value, input) ==
    [functionName |-> "gradeSubmission", sender |-> sender,
     assignmentId |-> assignmentId, student |-> student, value |-> value,
     input |-> input]

\* isPending || isConfirming: the card's last transaction is not mined yet.
isConfirming ==
    \E tx \in mempool :
        tx.functionName = "submitAssignment" /\ tx.sender = address

\* handleSubmit: the early returns, in code order ("ok": none is taken).
HandleSubmitResult ==
    IF answerValue = EmptyText \/ instance = NoInstance
        THEN "Please enter an answer and ensure wallet is connected"
    ELSE IF \/ isNaN(parseInt(answerValue))
            \/ Less(parseInt(answerValue), 0)
            \/ Greater(parseInt(answerValue), 100)
        THEN "Answer value must be a number between 0 and 100"
    ELSE IF instance = NoInstance \/ address = Undefined
        THEN "FHEVM instance or wallet not ready"
    ELSE "ok"

\* handleSubmit: encrypt numericValue for (contract, address) and send
\* submitAssignment.  A failed simulation is logged and ignored.
handleSubmit(assignmentId) ==
    LET numericValue == parseInt(answerValue)
    IN  /\ HandleSubmitResult = "ok"
        /\ \E n \in Serials(address) :
             mempool' = mempool \cup
                 {SubmitTx(address, assignmentId, numericValue.value,
                           [user |-> address, n |-> n])}
        /\ UNCHANGED <<now, storage>>
        /\ UNCHANGED <<isConnected, address, chainId, instance, isLoading,
                       error, inits, answerValue, students, teacherRead,
                       location>>

\* onChange of the answer value field
setAnswerValue(text) ==
    /\ answerValue' = text
    /\ UNCHANGED <<now, storage>>
    /\ UNCHANGED <<isConnected, address, chainId, instance, isLoading, error,
                   inits, students, mempool, teacherRead, location>>

(* ----------------------------- GradingDialog --------------------------- *)
\* What userDecrypt returns for a handle: the cleartext behind it.
Cleartext(handle) == [of |-> handle]
Null == Cleartext(ZeroHandle)               \* null: nothing decrypted

\* decryptEuint32: the relayer decrypts for an account the ACL allows.
decryptEuint32(handle) ==
    IF <<handle, address>> \in acl THEN Cleartext(handle) ELSE Null

\* fetchSubmissions: one row per SubmissionCreated event of the assignment
\* (an account submits at most once, so the student's address keys the row).
fetchSubmissions(assignmentId) ==
    /\ students' =
         [s \in {x \in Accounts : getSubmission(assignmentId, x).exists} |->
            [address |-> s,
             encryptedAnswer |-> getSubmission(assignmentId, s).encryptedAnswer,
             timestamp |-> getSubmission(assignmentId, s).timestamp,
             decryptedAnswer |-> Null,
             score |-> EmptyText,
             isGraded |-> hasGrade(assignmentId, s)]]
    /\ UNCHANGED <<now, storage>>
    /\ UNCHANGED <<isConnected, address, chainId, instance, isLoading, error,
                   inits, answerValue, mempool, teacherRead, location>>

handleDecryptOne(index) ==
    LET student == students[index]
        decrypted == decryptEuint32(student.encryptedAnswer)
    IN  /\ instance # NoInstance /\ address # Undefined
        /\ student.decryptedAnswer = Null
        /\ decrypted # Null
        /\ students' = [students EXCEPT ![index].decryptedAnswer = decrypted]
        /\ UNCHANGED <<now, storage>>
        /\ UNCHANGED <<isConnected, address, chainId, instance, isLoading,
                       error, inits, answerValue, mempool, teacherRead,
                       location>>

\* render: the score field and the "Submit Grade" button of a row
ScoreInputOffered(index) ==
    /\ students[index].decryptedAnswer # Null
    /\ ~students[index].isGraded

handleScoreChange(index, value) ==
    /\ students' = [students EXCEPT ![index].score = value]
    /\ UNCHANGED <<now, storage>>
    /\ UNCHANGED <<isConnected, address, chainId, instance, isLoading, error,
                   inits, answerValue, mempool, teacherRead, location>>

\* handleGrade without the score < 0 test
HandleGradeResult_NoLowerBound(index) ==
    IF \/ students[index].score = EmptyText
       \/ instance = NoInstance
       \/ address = Undefined
        THEN "Please enter a score"
    ELSE IF \/ isNaN(parseInt(students[index].score))
            \/ Greater(parseInt(students[index].score), 100)
        THEN "Score must be between 0 and 100"
    ELSE "ok"

\* handleGrade: the early returns, in code order ("ok": none is taken).
HandleGradeResult(index) ==
    IF \/ students[index].score = EmptyText
       \/ instance = NoInstance
       \/ address = Undefined
        THEN "Please enter a score"
    ELSE IF \/ isNaN(parseInt(students[index].score))
            \/ Less(parseInt(students[index].score), 0)
            \/ Greater(parseInt(students[index].score), 100)
        THEN "Score must be between 0 and 100"
    ELSE "ok"

\* handleGrade: encrypt the score for (contract, address), send gradeSubmission
\* and, once writeContractAsync has returned the transaction's hash, mark the
\* row graded.
handleGrade(assignmentId, index) ==
    LET student == students[index]
        score == parseInt(student.score)
    IN  /\ HandleGradeResult(index) = "ok"
        /\ \E n \in Serials(address) :
             mempool' = mempool \cup
                 {GradeTx(address, assignmentId, student.address, score.value,
                          [user |-> address, n |-> n])}
        /\ students' = [students EXCEPT ![index].isGraded = TRUE]
        /\ UNCHANGED <<now, storage>>
        /\ UNCHANGED <<isConnected, address, chainId, instance, isLoading,
                       error, inits, answerValue, teacherRead, location>>

(* ------------------------------- the chain ----------------------------- *)
\* What the contract answers to a transaction in the state it is mined in.
TxResult(tx) ==
    IF tx.functionName = "submitAssignment"
    THEN SubmitAssignmentResult(tx.sender, tx.assignmentId, tx.input, tx.input)
    ELSE GradeSubmissionResult(tx.sender, tx.assignmentId, tx.student,
                               tx.input, tx.input)

\* A block includes a transaction of the mempool: the call runs, or reverts
\* and changes nothing.  The card's useWaitForTransactionReceipt effect
\* clears the answer field when its submission has succeeded.
Mine(tx) ==
    /\ tx \in mempool
    /\ mempool' = mempool \ {tx}
    /\ IF TxResult(tx) # "ok" THEN UNCHANGED <<now, storage>>
       ELSE IF tx.functionName = "submitAssignment"
       THEN submitAssignment(tx.sender, tx.assignmentId, tx.input, tx.input)
       ELSE gradeSubmission(tx.sender, tx.assignmentId, tx.student, tx.input,
                            tx.input)
    /\ answerValue' =
         IF /\ TxResult(tx) = "ok"
            /\ tx.functionName = "submitAssignment"
            /\ tx.sender = address
         THEN EmptyText ELSE answerValue
    /\ UNCHANGED <<isConnected, address, chainId, instance, isLoading, error,
                   inits, students, teacherRead, location>>

(* ------------------- the card and the dialog in use -------------------- *)
\* A deployed contract whose teacher has created one assignment, and one
\* browser: a wallet is connected, FHEVMProvider has settled (with an instance
\* or with an error), and the page shown is the student page or, for the
\* teacher, the teacher page.
InitFrontend ==
    /\ now = 1
    /\ teacher = Deployer
    /\ \E deadline \in 2..MaxTime :
         assignments =
           [i \in Ids |->
              IF i = 0
              THEN [id |-> 0, title |-> "Test Assignment",
                    requirements |-> "Answer the question",
                    deadline |-> deadline, teacher |-> Deployer,
                    submissionCount |-> 0, isGrading |-> FALSE]
              ELSE NoAssignment]
    /\ submissions = [i \in Ids |-> [s \in Accounts |-> NoSubmission]]
    /\ grades = [i \in Ids |-> [s \in Accounts |-> NoGrade]]
    /\ totalAssignments = 1
    /\ acl = {}
    /\ isConnected = TRUE
    /\ address \in Accounts
    /\ location \in (IF address = Deployer THEN {"/", "/teacher"} ELSE {"/"})
    /\ chainId = Hardhat
    /\ instance \in {NoInstance, FhevmInstance(Hardhat)}
    /\ isLoading = FALSE
    /\ error = (instance = NoInstance)
    /\ inits = [c \in ChainIds |-> 0]
    /\ answerValue = EmptyText
    /\ students = [s \in {} |-> s]
    /\ mempool = {}
    /\ teacherRead =
         IF location = "/teacher"
         THEN [data |-> Deployer, isLoading |-> FALSE, isError |-> FALSE]
         ELSE NoRead

\* Typing into the answer field of the submit dialog.
DoSetAnswerValue ==
    \E assignmentId \in Ids, dateNow \in DateNow, text \in TextInputs :
        /\ SubmitDialogOffered(assignmentId, dateNow)
        /\ setAnswerValue(text)

\* "Submit Encrypted Answer": disabled while a transaction is pending, the
\* field is empty or there is no instance.
DoHandleSubmit ==
    \E assignmentId \in Ids, dateNow \in DateNow :
        /\ SubmitDialogOffered(assignmentId, dateNow)
        /\ ~isConfirming
        /\ answerValue # EmptyText
        /\ instance # NoInstance
        /\ Cardinality(mempool) < MaxPending
        /\ handleSubmit(assignmentId)

\* "Start Grading" opens the dialog, whose effect fetches the submissions.
DoFetchSubmissions ==
    \E assignmentId \in Ids, dateNow \in DateNow :
        /\ StartGradingShown(assignmentId, dateNow)
        /\ fetchSubmissions(assignmentId)

DoHandleDecryptOne ==
    \E index \in DOMAIN students :
        handleDecryptOne(index)

DoHandleScoreChange ==
    \E index \in DOMAIN students, value \in TextInputs :
        /\ ScoreInputOffered(index)
        /\ handleScoreChange(index, value)

\* "Submit Grade": disabled while the score field is empty.
DoHandleGrade ==
    \E assignmentId \in Ids, dateNow \in DateNow, index \in DOMAIN students :
        /\ StartGradingShown(assignmentId, dateNow)
        /\ ScoreInputOffered(index)
        /\ students[index].score # EmptyText
        /\ Cardinality(mempool) < MaxPending
        /\ handleGrade(assignmentId, index)

DoMine ==
    \E tx \in mempool :
        Mine(tx)

\* The browser's steps, the chain's, and the calls other accounts make to the
\* contract meanwhile.
NextFrontend ==
    \/ Tick
    \/ DoSubmitAssignment
    \/ DoGradeSubmission
    \/ DoSetAnswerValue
    \/ DoHandleSubmit
    \/ DoFetchSubmissions
    \/ DoHandleDecryptOne
    \/ DoHandleScoreChange
    \/ DoHandleGrade
    \/ DoMine

SpecFrontend == InitFrontend /\ [][NextFrontend]_vars

(* ---------------- the input handlers on their own ---------------------- *)
\* The handlers and render conditions applied to the states a card or a
\* dialog can be in: one assignment with some deadline, at some time, with
\* some students' submissions mined at time 1 and, after the deadline, some
\* of them graded; the browser as in InitFrontend, a teacher's dialog having
\* fetched its rows and decrypted some.
InitInputs ==
    /\ teacher = Deployer
    /\ totalAssignments = 1
    /\ now \in 1..MaxTime
    /\ \E deadline \in 2..MaxTime, submitted \in SUBSET Students :
         /\ assignments =
              [i \in Ids |->
                 IF i = 0
                 THEN [id |-> 0, title |-> "Test Assignment",
                       requirements |-> "Answer the question",
                       deadline |-> deadline, teacher |-> Deployer,
                       submissionCount |-> Cardinality(submitted),
                       isGrading |-> FALSE]
                 ELSE NoAssignment]
         /\ submissions =
              [i \in Ids |-> [s \in Accounts |->
                 IF i = 0 /\ s \in submitted
                 THEN [student |-> s,
                       encryptedAnswer |-> [user |-> s, n |-> 1],
                       timestamp |-> 1, exists |-> TRUE]
                 ELSE NoSubmission]]
         /\ \E graded \in SUBSET submitted :
              /\ graded # {} => now >= deadline
              /\ grades =
                   [i \in Ids |-> [s \in Accounts |->
                      IF i = 0 /\ s \in graded
                      THEN [encryptedScore |-> [user |-> Deployer, n |-> 1],
                            timestamp |-> deadline, exists |-> TRUE]
                      ELSE NoGrade]]
              /\ acl =
                   UNION {{<<[user |-> s, n |-> 1], This>>,
                           <<[user |-> s, n |-> 1], Deployer>>} :
                          s \in submitted}
                   \cup (IF graded = {} THEN {}
                         ELSE {<<[user |-> Deployer, n |-> 1], This>>})
                   \cup {<<[user |-> Deployer, n |-> 1], s>> : s \in graded}
    /\ isConnected = TRUE
    /\ address \in Accounts
    /\ location \in (IF address = Deployer THEN {"/", "/teacher"} ELSE {"/"})
    /\ chainId = Hardhat
    /\ instance \in {NoInstance, FhevmInstance(Hardhat)}
    /\ isLoading = FALSE
    /\ error = (instance = NoInstance)
    /\ inits = [c \in ChainIds |-> 0]
    /\ answerValue = EmptyText
    /\ \E decrypted \in SUBSET Students :
         students =
           IF /\ location = "/teacher"
              /\ now >= assignments[0].deadline
              /\ (decrypted # {} => instance # NoInstance)
           THEN [s \in {x \in Accounts : submissions[0][x].exists} |->
                   [address |-> s,
                    encryptedAnswer |-> submissions[0][s].encryptedAnswer,
                    timestamp |-> submissions[0][s].timestamp,
                    decryptedAnswer |->
                        IF s \in decrypted
                        THEN Cleartext(submissions[0][s].encryptedAnswer)
                        ELSE Null,
                    score |-> EmptyText,
                    isGraded |-> grades[0][s].exists]]
           ELSE [s \in {} |-> s]
    /\ mempool = {}
    /\ teacherRead =
         IF location = "/teacher"
         THEN [data |-> Deployer, isLoading |-> FALSE, isError |-> FALSE]
         ELSE NoRead

NextInputs ==
    \/ DoSetAnswerValue
    \/ DoHandleSubmit
    \/ DoHandleScoreChange
    \/ DoHandleGrade

SpecInputs == InitInputs /\ [][NextInputs]_vars

(* ----------------------------------------------------------------- C32 *)
\* C32: in GradingDialog a row is marked graded (isGraded) only if the
\* contract holds a Grade for that assignment and student.
C32_GradedOnlyIfOnChain ==
    \A assignmentId \in Ids :
        CardRendered(assignmentId) =>
            \A index \in DOMAIN students :
                students[index].isGraded =>
                    hasGrade(assignmentId, students[index].address)

(* ------------------------------ TeacherPage ---------------------------- *)
\* An address as a wallet or a node may spell it: hex digits in either case.
Spellings(account) ==
    IF account = "teacher" THEN {"teacher", "Teacher", "TEACHER"}
    ELSE IF account = "student1" THEN {"student1", "STUDENT1"}
    ELSE {"student2", "STUDENT2"}

WalletAddresses == UNION {Spellings(account) : account \in Accounts}

\* String.prototype.toLowerCase
toLowerCase(text) ==
    CASE text \in Spellings("teacher") -> "teacher"
      [] text \in Spellings("student1") -> "student1"
      [] text \in Spellings("student2") -> "student2"
      [] OTHER -> text

\* useReadContract(teacher) on a render: enabled by isConnected, it starts
\* fetching when it has neither data nor an error; disabled, it is idle.
ReadOnRender(connected, read) ==
    IF ~connected THEN [read EXCEPT !.isLoading = FALSE]
    ELSE IF read.data = Undefined /\ ~read.isError
        THEN [read EXCEPT !.isLoading = TRUE]
    ELSE read

\* TeacherPage's render that shows the dashboard to every connected address
TeacherPageView_NoAddressCheck(connected, account, read) ==
    IF ~connected THEN "Please connect your wallet"
    ELSE IF read.isLoading THEN "Loading..."
    ELSE IF read.isError \/ read.data = Undefined
        THEN "Error loading contract"
    ELSE "TeacherDashboard"

\* TeacherPage's render: what the page returns, in code order.
TeacherPageView(connected, account, read) ==
    IF ~connected THEN "Please connect your wallet"
    ELSE IF read.isLoading THEN "Loading..."
    ELSE IF read.isError \/ read.data = Undefined
        THEN "Error loading contract"
    ELSE IF /\ account # Undefined
            /\ read.data # Undefined
            /\ toLowerCase(account) # toLowerCase(read.data)
        THEN "Access denied"
    ELSE "TeacherDashboard"

\* TeacherPage's effect on [address, teacherAddress, isConnected, isLoading]:
\* it calls navigate('/') for an address that is not the teacher's.
Redirects(connected, account, read) ==
    /\ connected /\ account # Undefined /\ read.data # Undefined
    /\ ~read.isLoading
    /\ toLowerCase(account) # toLowerCase(read.data)

\* The route after TeacherPage has rendered and run its effect.
RouteAfter(connected, account, read) ==
    IF Redirects(connected, account, read) THEN "/" ELSE "/teacher"

\* TeacherPage, if it is the page shown, re-renders with new hook values.
TeacherPageRenders(connected, account, read) ==
    IF location = "/teacher"
    THEN /\ teacherRead' = ReadOnRender(connected, read)
         /\ location' = RouteAfter(connected, account,
                                   ReadOnRender(connected, read))
    ELSE UNCHANGED <<teacherRead, location>>

(* ----------------------------- FHEVMProvider --------------------------- *)
\* What createFhevmInstance(walletClient, chainId) may resolve to: an instance
\* for a chain it knows, or null (unsupported chain, or a caught exception).
createFhevmInstance(c) ==
    IF c \in {Hardhat, Sepolia} THEN {FhevmInstance(c), NoInstance}
    ELSE {NoInstance}

Pending == inits[Hardhat] + inits[Sepolia] + inits[OtherChain]

\* useEffect on [isConnected, address, walletClient, chainId], run with the
\* values of the render that follows a change of them (the wallet client is
\* there exactly while connected).  With a wallet it calls initializeInstance,
\* which runs up to its await; without one it clears the state.
ProviderEffect(connected, account, c) ==
    IF connected /\ account # Undefined
    THEN /\ isLoading' = TRUE
         /\ error' = FALSE
         /\ inits' = [inits EXCEPT ![c] = @ + 1]
         /\ UNCHANGED instance
    ELSE /\ instance' = NoInstance
         /\ isLoading' = FALSE
         /\ error' = FALSE
         /\ UNCHANGED inits

\* The user connects a wallet.
connect(account) ==
    /\ ~isConnected
    /\ Pending < MaxInits
    /\ isConnected' = TRUE
    /\ address' = account
    /\ ProviderEffect(TRUE, account, chainId)
    /\ TeacherPageRenders(TRUE, account, teacherRead)
    /\ UNCHANGED <<now, storage>>
    /\ UNCHANGED <<chainId, answerValue, students, mempool>>

\* The user disconnects the wallet.
disconnect ==
    /\ isConnected
    /\ isConnected' = FALSE
    /\ address' = Undefined
    /\ ProviderEffect(FALSE, Undefined, chainId)
    /\ TeacherPageRenders(FALSE, Undefined, teacherRead)
    /\ UNCHANGED <<now, storage>>
    /\ UNCHANGED <<chainId, answerValue, students, mempool>>

\* The wallet switches to another chain; the teacher() read is then one of
\* another contract address and starts anew.
switchChain(c) ==
    /\ c # chainId
    /\ isConnected => Pending < MaxInits
    /\ chainId' = c
    /\ ProviderEffect(isConnected, address, c)
    /\ TeacherPageRenders(isConnected, address, NoRead)
    /\ UNCHANGED <<now, storage>>
    /\ UNCHANGED <<isConnected, address, answerValue, students, mempool>>

\* initializeInstance after its await: the createFhevmInstance of a call made
\* for chain c has resolved to fhevmInstance.
settle(c, fhevmInstance) ==
    /\ inits[c] > 0
    /\ inits' = [inits EXCEPT ![c] = @ - 1]
    /\ IF fhevmInstance # NoInstance
       THEN instance' = fhevmInstance /\ UNCHANGED error
       ELSE error' = TRUE /\ UNCHANGED instance
    /\ isLoading' = FALSE
    /\ UNCHANGED <<now, storage>>
    /\ UNCHANGED <<isConnected, address, chainId, answerValue, students,
                   mempool, teacherRead, location>>

DoConnect ==
    \E account \in WalletAddresses :
        connect(account)

DoSwitchChain ==
    \E c \in ChainIds :
        switchChain(c)

DoSettle ==
    \E c \in ChainIds :
        \E fhevmInstance \in createFhevmInstance(c) :
            settle(c, fhevmInstance)

NextProvider ==
    \/ DoConnect
    \/ disconnect
    \/ DoSwitchChain
    \/ DoSettle

SpecProvider == Init /\ [][NextProvider]_vars

(* ------------------------- TeacherPage in use -------------------------- *)
\* The user opens the /teacher route: TeacherPage mounts, renders and runs
\* its effect.
openTeacherPage ==
    /\ location = "/"
    /\ teacherRead' = ReadOnRender(isConnected, teacherRead)
    /\ location' = RouteAfter(isConnected, address,
                              ReadOnRender(isConnected, teacherRead))
    /\ UNCHANGED <<now, storage>>
    /\ UNCHANGED <<isConnected, address, chainId, instance, isLoading, error,
                   inits, answerValue, students, mempool>>

\* The teacher() call has returned the contract's teacher, in some spelling.
teacherLoaded(data) ==
    /\ teacherRead.isLoading \/ teacherRead.isError
    /\ isConnected
    /\ teacherRead' = [data |-> data, isLoading |-> FALSE, isError |-> FALSE]
    /\ location' =
         IF location = "/teacher"
         THEN RouteAfter(isConnected, address,
                  [data |-> data, isLoading |-> FALSE, isError |-> FALSE])
         ELSE location
    /\ UNCHANGED <<now, storage>>
    /\ UNCHANGED <<isConnected, address, chainId, instance, isLoading, error,
                   inits, answerValue, students, mempool>>

\* The teacher() call, or a later refetch of it, has failed.
teacherFailed ==
    /\ teacherRead.isLoading \/ teacherRead.data # Undefined
    /\ isConnected
    /\ teacherRead' = [teacherRead EXCEPT !.isLoading = FALSE,
                                          !.isError = TRUE]
    /\ location' =
         IF location = "/teacher"
         THEN RouteAfter(isConnected, address,
                  [teacherRead EXCEPT !.isLoading = FALSE, !.isError = TRUE])
         ELSE location
    /\ UNCHANGED <<now, storage>>
    /\ UNCHANGED <<isConnected, address, chainId, instance, isLoading, error,
                   inits, answerValue, students, mempool>>

DoTeacherLoaded ==
    \E data \in Spellings(teacher) :
        teacherLoaded(data)

NextTeacherPage ==
    \/ DoConnect
    \/ disconnect
    \/ DoSwitchChain
    \/ DoSettle
    \/ openTeacherPage
    \/ DoTeacherLoaded
    \/ teacherFailed

SpecTeacherPage == Init /\ [][NextTeacherPage]_vars

(* ----------------------------------------------------------------- C33 *)
\* C33: once every pending initializeInstance call has settled, the instance
\* FHEVMProvider exposes is null while the wallet is disconnected, and
\* otherwise it is null or was created for the current chainId.
C33_NoStaleInstance ==
    Pending = 0 =>
        /\ ~isConnected => instance = NoInstance
        /\ isConnected /\ instance # NoInstance =>
               instance.chainId = chainId

OutOfRange(x) == isNaN(x) \/ Less(x, 0) \/ Greater(x, 100)

\* C35: every submitAssignment or gradeSubmission write the frontend issues
\* carries an integer value in 0..100, the parsed input; handleSubmit and
\* handleGrade write nothing when the parsed input is NaN, below 0 or above
\* 100; and a row's score is entered, and its grade written, only while the
\* row's answer is decrypted and the row is not marked graded.
C35_ValidatedWrites ==
    /\ [](\A tx \in mempool : tx.value \in 0..100)
    /\ [][/\ \A tx \in mempool' \ mempool :
                /\ tx.value \in 0..100
                /\ tx.functionName = "submitAssignment" =>
                     /\ ~OutOfRange(parseInt(answerValue))
                     /\ tx.value = parseInt(answerValue).value
                /\ tx.functionName = "gradeSubmission" =>
                     /\ ~OutOfRange(parseInt(students[tx.student].score))
                     /\ tx.value = parseInt(students[tx.student].score).value
                     /\ students[tx.student].decryptedAnswer # Null
                     /\ ~students[tx.student].isGraded
          /\ OutOfRange(parseInt(answerValue)) =>
               ~\E tx \in mempool' \ mempool :
                   tx.functionName = "submitAssignment"
          /\ \A index \in DOMAIN students :
               /\ OutOfRange(parseInt(students[index].score)) =>
                    ~\E tx \in mempool' \ mempool :
                        /\ tx.functionName = "gradeSubmission"
                        /\ tx.student = students[index].address
               /\ index \in DOMAIN students' /\
                  students'[index].score # students[index].score =>
                    /\ students[index].decryptedAnswer # Null
                    /\ ~students[index].isGraded]_vars

\* C35 witness: the teacher typed "3.7" for a decrypted, ungraded row and
\* handleGrade has written the grade 3 for it.
C35_Witness ==
    \E tx \in mempool :
        /\ tx.functionName = "gradeSubmission"
        /\ tx.value = 3
        /\ students[tx.student].score = <<"3", ".", "7">>
        /\ students[tx.student].decryptedAnswer # Null
        /\ students[tx.student].isGraded

(* ----------------------------------------------------------------- C36 *)
\* What TeacherPage returns (shown while the route is /teacher).
View == TeacherPageView(isConnected, address, teacherRead)

\* teacher() has loaded without error.
TeacherKnown ==
    /\ ~teacherRead.isLoading
    /\ ~teacherRead.isError
    /\ teacherRead.data # Undefined

\* C36: TeacherPage returns the TeacherDashboard exactly when a wallet is
\* connected, teacher() has loaded without error and the connected address
\* equals it up to letter case (the contract's teacher, then); for any other
\* connected address it returns "Access denied" and has navigated to "/";
\* disconnected, loading or in error it does not return the dashboard.
C36_TeacherGate ==
    /\ View = "TeacherDashboard" <=>
           /\ isConnected
           /\ TeacherKnown
           /\ toLowerCase(address) = toLowerCase(teacherRead.data)
    /\ View = "TeacherDashboard" => toLowerCase(address) = teacher
    /\ isConnected /\ TeacherKnown
         /\ toLowerCase(address) # toLowerCase(teacherRead.data) =>
           /\ View = "Access denied"
           /\ location = "/"
    /\ ~isConnected \/ teacherRead.isLoading \/ teacherRead.isError =>
           View # "TeacherDashboard"

\* C36 witness: the dashboard is shown on /teacher to the teacher's wallet,
\* whose address the wallet spells differently from the contract read.
C36_Witness ==
    /\ location = "/teacher"
    /\ View = "TeacherDashboard"
    /\ address # teacherRead.data

====
